---- MODULE Spec2Model ----
(***************************************************************************)
(* CommandStrike: the Ollama client of command_strike/src/llm.rs.          *)
(*                                                                         *)
(* Texts (Rust Strings) are sequences of one-character or one-word tokens, *)
(* so that concatenation, trimming and slicing are computed, not assumed.  *)
(*                                                                         *)
(* Spec      the streaming invoker: the detached producer task of          *)
(*           stream_response, the bounded channel and a consumer.          *)
(* SpecLive  the streaming invoker with a consumer that reads until the    *)
(*           channel closes, under fair scheduling.                        *)
(* SpecSync  the synchronous invoker: generate_with_timeout reached        *)
(*           through generate_command / interpret_result.                  *)
(* SpecReg   the model registry: validate_model.                           *)
(* SpecList  the model registry: get_available_models beside               *)
(*           validate_model, against the catalogs of the hosts.            *)
(* SpecPull  the model registry: pull_model.                               *)
(* SpecClient the client's configuration, its mutators, and the requests   *)
(*           generate_command, interpret_result and stream_response build. *)
(* SpecSan   clean_command_response applied to response texts, and to its  *)
(*           own output.                                                   *)
(* SpecMain  the interactive program of command_strike/src/main.rs: the    *)
(*           choice of the model at start-up and by the switch command.    *)
(***************************************************************************)
EXTENDS Integers, Sequences, FiniteSets, TLC

VARIABLES
    \* ---- streaming invoker (stream_response) ----
    resp,            \* what the service answers to the streaming request
    pc,              \* position of the spawned producer task
    ci,              \* index of the chunk the producer is working on
    li,              \* index of the line of that chunk it is working on
    full_response,   \* the producer's locally accumulated text
    chan,            \* fragments pending in the mpsc channel
    final_response,  \* the shared slot: <<>> is None, <<t>> is Some(t)
    slot_writes,     \* how many times the slot has been assigned
    rx,              \* the consumer's receiver: "open", "closed", "dropped"
    received,        \* the fragments the consumer got from recv(), in order
    \* ---- synchronous invoker (generate_with_timeout and its callers) ----
    call,            \* the call in progress and what the service will do
    spc,             \* position of the synchronous call
    clock,           \* time units elapsed since the request was started
    requests,        \* HTTP requests sent by this invocation
    gwt_result,      \* what generate_with_timeout returned
    result,          \* what generate_command / interpret_result returned
    \* ---- model registry (validate_model) ----
    reg,             \* the registry call in progress and the service's answer
    rpc,             \* position of the registry call
    reg_result,      \* what validate_model returned
    \* ---- the service's catalogs ----
    tags,            \* what each host answers to GET /api/tags
    \* ---- model registry (get_available_models beside validate_model) ----
    api_url,         \* config.api_url of the client
    asked,           \* the model name asked about
    list_result,     \* what get_available_models returned
    valid_result,    \* what validate_model returned
    \* ---- model registry (pull_model) ----
    pull,            \* the pull in progress and the answer to its POST /api/pull
    ppc,             \* position of pull_model
    probes,          \* the answers its validate_model calls got, in order
    installs,        \* POST /api/pull requests sent
    slept,           \* seconds of the grace wait that have passed
    pull_result,     \* what pull_model returned
    \* ---- the client's configuration and the requests built from it ----
    config,          \* OllamaClient.config
    history,         \* the caller's Vec<HistoryItem>
    request,         \* the OllamaRequest of the call in progress, if any
    last_call,       \* the latest operation on the client or the history
    \* ---- the sanitizer applied to a response text ----
    origin,          \* how the response text was put together
    input,           \* the response text handed to clean_command_response
    san,             \* how many times the sanitizer has been applied
    once,            \* the outcome of the first application
    twice,           \* the outcome of applying it to its own output
    \* ---- the interactive program (main.rs) ----
    mpc,             \* position of main
    selected,        \* the name select_model returned last
    client,          \* the OllamaClient's configuration, once it is built
    approved         \* the names validate_model or pull_model answered true for

stream_vars == <<resp, pc, ci, li, full_response, chan, final_response,
                 slot_writes, rx, received>>
sync_vars == <<call, spc, clock, requests, gwt_result, result>>
reg_vars == <<reg, rpc, reg_result>>
svc_vars == <<tags>>
list_vars == <<api_url, asked, list_result, valid_result>>
pull_vars == <<pull, ppc, probes, installs, slept, pull_result>>
client_vars == <<config, history, request, last_call>>
san_vars == <<origin, input, san, once, twice>>
main_vars == <<mpc, selected, client, approved>>
more_vars == <<svc_vars, list_vars, pull_vars, client_vars, san_vars, main_vars>>
vars == <<stream_vars, sync_vars, reg_vars, more_vars>>

----------------------------------------------------------------------------
(* Bounds of the model *)

\* events (lines, chunk boundaries) in an enumerated streamed body
MaxEvents == 3
\* frames of the one long streamed body, more than the channel can hold
LongLen == 102

(* Program constants *)

\* mpsc::channel(100)
CHANNEL_CAPACITY == 100

----------------------------------------------------------------------------
(* Texts *)

None == <<>>
Some(t) == <<t>>

Letters == <<"a", "b", "c", "d", "e">>
Letter(i) == Letters[((i - 1) % Len(Letters)) + 1]

RECURSIVE Concat(_)
\* the in-order concatenation of a sequence of texts
Concat(ts) ==
    IF Len(ts) = 0 THEN <<>>
    ELSE IF Len(ts) = 1 THEN ts[1]
    ELSE Concat(SubSeq(ts, 1, Len(ts) \div 2))
            \o Concat(SubSeq(ts, Len(ts) \div 2 + 1, Len(ts)))

\* format!("Error: {}", e)
FormatError(e) == <<"Error: ">> \o e
\* format!("Failed to read error response: {}", e)
FormatReadError(e) == <<"Failed to read error response: ">> \o e
\* format!("API Error: {}", error_text)
FormatApiError(t) == <<"API Error: ">> \o t
\* format!("Stream error: {}", e)
FormatStreamError(e) == <<"Stream error: ">> \o e

\* the Display text of a transport error
TransportErr == <<"io">>
\* the body of a non-success answer
ErrorBody == <<"n", "o">>

Diagnostics == { FormatError(TransportErr),
                 FormatApiError(ErrorBody),
                 FormatApiError(FormatReadError(TransportErr)),
                 FormatStreamError(TransportErr) }

----------------------------------------------------------------------------
(* Wire codec: one line of a response body *)

\* A line is either not JSON at all, or a JSON object with some of the
\* fields of OllamaResponse.
FrameLine(t, d) ==
    [json |-> TRUE, fields |-> {"model", "response", "done"}, response |-> t, done |-> d]
\* a frame that leaves `done` out
BareLine(t) ==
    [json |-> TRUE, fields |-> {"model", "response"}, response |-> t, done |-> TRUE]
\* a JSON object that is no frame (no `model`)
OtherLine(t) ==
    [json |-> TRUE, fields |-> {"response", "done"}, response |-> t, done |-> FALSE]
\* text that is not JSON: garbage, or a piece of a frame cut by a chunk boundary
JunkLine ==
    [json |-> FALSE, fields |-> {}, response |-> <<>>, done |-> FALSE]

\* serde_json::from_str::<OllamaResponse>(line): `model` and `response` are
\* required, `done` is #[serde(default)]
from_str(line) ==
    IF line.json /\ {"model", "response"} \subseteq line.fields
    THEN [ok |-> TRUE, response |-> line.response,
          done |-> IF "done" \in line.fields THEN line.done ELSE FALSE]
    ELSE [ok |-> FALSE, response |-> <<>>, done |-> FALSE]

----------------------------------------------------------------------------
(* The streamed response body, as the transport delivers it *)

\* One event of a body: a line of some shape, a line holding bytes that are
\* not UTF-8 (a character cut by the chunk boundary), a chunk boundary after
\* a line, or a well-formed frame that a chunk boundary cuts in two ("split").
Events == {"frame", "bare", "done", "other", "junk", "bad", "|", "split"}

EmptyChunk == [err |-> FALSE, utf8 |-> TRUE, lines |-> <<>>]
\* Some(Err(e)) from the byte stream
ErrChunk == [err |-> TRUE, utf8 |-> TRUE, lines |-> <<>>]

\* a chunk the transport would deliver after it failed
LateChunk == [err |-> FALSE, utf8 |-> TRUE, lines |-> <<FrameLine(<<"late">>, FALSE)>>]

\* the line the i-th event gives text.lines(); its fragment is Letter(i)
LineOf(e, i) ==
    CASE e = "frame" -> FrameLine(<<Letter(i)>>, FALSE)
      [] e = "bare"  -> BareLine(<<Letter(i)>>)
      [] e = "done"  -> FrameLine(<<Letter(i)>>, TRUE)
      [] e = "other" -> OtherLine(<<Letter(i)>>)
      [] OTHER       -> JunkLine

Flush(out, cur) == IF cur = EmptyChunk THEN out ELSE Append(out, cur)

RECURSIVE Chunks(_, _, _, _)
\* the chunks that events ev[i..] are delivered in, after chunks `out` and
\* the lines of `cur`
Chunks(ev, i, cur, out) ==
    IF i > Len(ev) THEN Flush(out, cur)
    ELSE IF ev[i] = "|" THEN Chunks(ev, i + 1, EmptyChunk, Flush(out, cur))
    ELSE IF ev[i] = "split"
         THEN \* the chunk ends with the first piece of the frame and the next
              \* chunk starts with the rest: neither piece is a JSON object
              Chunks(ev, i + 1,
                     [EmptyChunk EXCEPT !.lines = <<JunkLine>>],
                     Append(out, [cur EXCEPT !.lines = Append(@, JunkLine)]))
    ELSE Chunks(ev, i + 1,
                [cur EXCEPT !.lines = Append(@, LineOf(ev[i], i)),
                            !.utf8 = @ /\ ev[i] # "bad"],
                out)

RECURSIVE SeqsUpTo(_, _)
\* the sequences over S of length at most n
SeqsUpTo(S, n) ==
    IF n = 0 THEN {<<>>}
    ELSE LET shorter == SeqsUpTo(S, n - 1)
         IN  shorter \cup {Append(s, x) : s \in shorter, x \in S}

\* the line the i-th event is on the wire, as the service wrote it
WireLine(e, i) ==
    IF e = "split" THEN FrameLine(<<Letter(i)>>, FALSE) ELSE LineOf(e, i)

\* the lines of the body the service wrote
Wire(ev) ==
    LET at == SelectSeq([i \in 1..Len(ev) |-> i], LAMBDA i : ev[i] # "|")
    IN  [k \in 1..Len(at) |-> WireLine(ev[at[k]], at[k])]

\* the enumerated bodies and the chunks they are delivered in: every event
\* sequence, ending normally or with a transport error
Deliveries ==
    {[wire |-> Wire(ev), stream |-> Chunks(ev, 1, EmptyChunk, <<>>) \o tail] :
        ev \in SeqsUpTo(Events, MaxEvents),
        tail \in {<<>>, <<ErrChunk>>, <<ErrChunk, LateChunk>>}}

Streams == {d.stream : d \in Deliveries}

\* the long body: LongLen frames in one chunk, `done` on the last only
LongStream ==
    << [err |-> FALSE, utf8 |-> TRUE,
        lines |-> [i \in 1..LongLen |-> FrameLine(<<Letter(i)>>, i = LongLen)]] >>

\* What the service does with the streaming request: the request fails to be
\* sent, or is answered with a non-success status (whose body can or cannot
\* be read), or with a success status and a body stream.
Responses ==
    {[send_ok |-> FALSE, status_ok |-> FALSE, text_ok |-> FALSE,
      stream |-> <<>>, wire |-> <<>>]}
    \cup {[send_ok |-> TRUE, status_ok |-> FALSE, text_ok |-> t,
            stream |-> <<>>, wire |-> <<>>] : t \in BOOLEAN}
    \cup {[send_ok |-> TRUE, status_ok |-> TRUE, text_ok |-> TRUE,
            stream |-> d.stream, wire |-> d.wire] :
            d \in Deliveries \cup {[wire |-> LongStream[1].lines, stream |-> LongStream]}}

----------------------------------------------------------------------------
(* stream_response: the producer task, the channel, the consumer *)

\* faulty variant: the fragment is forwarded but not accumulated
push_str_forgets(s, t) == s

\* String::push_str
push_str(s, t) == s \o t

\* faulty variant: an unbounded channel, the producer never waits
send_ready_unbounded(q, r) == TRUE

\* tx.send(t).await can complete: there is room, or the receiver is gone
\* (then it completes with an error at once)
send_ready(q, r) == Len(q) < CHANNEL_CAPACITY \/ r = "dropped"

\* the channel after tx.send(t).await completed; the error of a send to a
\* dropped receiver is discarded (`let _ =`)
tx_send(q, t, r) == IF r = "dropped" THEN q ELSE Append(q, t)

\* the diagnostic of the early-return paths
early_diagnostic(r) ==
    IF ~r.send_ok THEN FormatError(TransportErr)
    ELSE IF r.text_ok THEN FormatApiError(ErrorBody)
    ELSE FormatApiError(FormatReadError(TransportErr))

\* where the producer continues after a decoded frame: `break` leaves the
\* `for line in text.lines()` loop, and the `while let` asks for the next chunk
after_frame(done, c, l) ==
    IF done THEN [pc |-> "next", ci |-> c + 1, li |-> 1]
    ELSE [pc |-> "lines", ci |-> c, li |-> l + 1]

StreamInit ==
    /\ resp \in Responses
    /\ pc = "request"
    /\ ci = 1
    /\ li = 1
    /\ full_response = <<>>
    /\ chan = <<>>
    /\ final_response = None
    /\ slot_writes = 0
    /\ rx = "open"
    /\ received = <<>>

\* streaming_client.post(url)...send().await and the status check
SendRequest ==
    /\ pc = "request"
    /\ pc' = IF resp.send_ok /\ resp.status_ok THEN "next" ELSE "early"
    /\ UNCHANGED <<resp, ci, li, full_response, chan, final_response,
                   slot_writes, rx, received>>
    /\ UNCHANGED <<sync_vars, reg_vars, more_vars>>

\* faulty variant: the `return` after the diagnostic is missing
EarlyReturn_falls_through ==
    /\ pc = "early"
    /\ send_ready(chan, rx)
    /\ chan' = tx_send(chan, early_diagnostic(resp), rx)
    /\ pc' = "next"
    /\ UNCHANGED <<resp, ci, li, full_response, final_response, slot_writes,
                   rx, received>>
    /\ UNCHANGED <<sync_vars, reg_vars, more_vars>>

\* the Err arm of send() and the non-success arm: one diagnostic, then return
\* (tx is dropped with the task)
EarlyReturn ==
    /\ pc = "early"
    /\ send_ready(chan, rx)
    /\ chan' = tx_send(chan, early_diagnostic(resp), rx)
    /\ pc' = "done"
    /\ UNCHANGED <<resp, ci, li, full_response, final_response, slot_writes,
                   rx, received>>
    /\ UNCHANGED <<sync_vars, reg_vars, more_vars>>

\* faulty variant: the store sits inside the `while let` loop
NextChunk_storing ==
    /\ pc = "next"
    /\ IF ci > Len(resp.stream) THEN /\ pc' = "store"
                                     /\ UNCHANGED <<ci, li, final_response, slot_writes>>
       ELSE IF resp.stream[ci].err THEN /\ pc' = "stream_err"
                                        /\ UNCHANGED <<ci, li, final_response, slot_writes>>
       ELSE IF ~resp.stream[ci].utf8 THEN /\ ci' = ci + 1
                                          /\ UNCHANGED <<pc, li, final_response, slot_writes>>
       ELSE /\ pc' = "lines"
            /\ li' = 1
            /\ final_response' = Some(full_response)
            /\ slot_writes' = slot_writes + 1
            /\ UNCHANGED ci
    /\ UNCHANGED <<resp, full_response, chan, rx, received>>
    /\ UNCHANGED <<sync_vars, reg_vars, more_vars>>

\* stream.next().await
NextChunk ==
    /\ pc = "next"
    /\ IF ci > Len(resp.stream) THEN /\ pc' = "store"
                                     /\ UNCHANGED <<ci, li>>
       ELSE IF resp.stream[ci].err THEN /\ pc' = "stream_err"
                                        /\ UNCHANGED <<ci, li>>
       ELSE IF ~resp.stream[ci].utf8 THEN /\ ci' = ci + 1
                                          /\ UNCHANGED <<pc, li>>
       ELSE /\ pc' = "lines"
            /\ li' = 1
            /\ UNCHANGED ci
    /\ UNCHANGED <<resp, full_response, chan, final_response, slot_writes,
                   rx, received>>
    /\ UNCHANGED <<sync_vars, reg_vars, more_vars>>

\* faulty variant: a line that does not parse ends the reading of the body
NextLine_fatal ==
    /\ pc = "lines"
    /\ IF li > Len(resp.stream[ci].lines)
       THEN /\ pc' = "next"
            /\ ci' = ci + 1
            /\ li' = 1
            /\ UNCHANGED <<full_response, chan>>
       ELSE LET r == from_str(resp.stream[ci].lines[li])
                to == after_frame(r.done, ci, li)
            IN  IF r.ok
                THEN /\ send_ready(chan, rx)
                     /\ chan' = tx_send(chan, r.response, rx)
                     /\ full_response' = push_str(full_response, r.response)
                     /\ pc' = to.pc
                     /\ ci' = to.ci
                     /\ li' = to.li
                ELSE /\ pc' = "store"
                     /\ UNCHANGED <<ci, li, full_response, chan>>
    /\ UNCHANGED <<resp, final_response, slot_writes, rx, received>>
    /\ UNCHANGED <<sync_vars, reg_vars, more_vars>>

\* one turn of `for line in text.lines()`
NextLine ==
    /\ pc = "lines"
    /\ IF li > Len(resp.stream[ci].lines)
       THEN /\ pc' = "next"
            /\ ci' = ci + 1
            /\ li' = 1
            /\ UNCHANGED <<full_response, chan>>
       ELSE LET r == from_str(resp.stream[ci].lines[li])
                to == after_frame(r.done, ci, li)
            IN  IF r.ok
                THEN /\ send_ready(chan, rx)
                     /\ chan' = tx_send(chan, r.response, rx)
                     /\ full_response' = push_str(full_response, r.response)
                     /\ pc' = to.pc
                     /\ ci' = to.ci
                     /\ li' = to.li
                ELSE /\ li' = li + 1
                     /\ UNCHANGED <<pc, ci, full_response, chan>>
    /\ UNCHANGED <<resp, final_response, slot_writes, rx, received>>
    /\ UNCHANGED <<sync_vars, reg_vars, more_vars>>

\* faulty variant: the diagnostic is also appended to the accumulated text
StreamError_accumulating ==
    /\ pc = "stream_err"
    /\ send_ready(chan, rx)
    /\ chan' = tx_send(chan, FormatStreamError(TransportErr), rx)
    /\ full_response' = push_str(full_response, FormatStreamError(TransportErr))
    /\ pc' = "store"
    /\ UNCHANGED <<resp, ci, li, final_response, slot_writes, rx, received>>
    /\ UNCHANGED <<sync_vars, reg_vars, more_vars>>

\* the Err arm of the chunk: one diagnostic, then `break`
StreamError ==
    /\ pc = "stream_err"
    /\ send_ready(chan, rx)
    /\ chan' = tx_send(chan, FormatStreamError(TransportErr), rx)
    /\ pc' = "store"
    /\ UNCHANGED <<resp, ci, li, full_response, final_response, slot_writes,
                   rx, received>>
    /\ UNCHANGED <<sync_vars, reg_vars, more_vars>>

\* faulty variant: the task ends without storing the text
StoreFinal_skipped ==
    /\ pc = "store"
    /\ pc' = "finishing"
    /\ UNCHANGED <<resp, ci, li, full_response, chan, final_response,
                   slot_writes, rx, received>>
    /\ UNCHANGED <<sync_vars, reg_vars, more_vars>>

\* *guard = Some(full_response)
StoreFinal ==
    /\ pc = "store"
    /\ final_response' = Some(full_response)
    /\ slot_writes' = slot_writes + 1
    /\ pc' = "finishing"
    /\ UNCHANGED <<resp, ci, li, full_response, chan, rx, received>>
    /\ UNCHANGED <<sync_vars, reg_vars, more_vars>>

\* faulty variant: a clone of the sender outlives the task, which parks
TaskEnd_sender_kept ==
    /\ pc = "finishing"
    /\ pc' = "parked"
    /\ UNCHANGED <<resp, ci, li, full_response, chan, final_response,
                   slot_writes, rx, received>>
    /\ UNCHANGED <<sync_vars, reg_vars, more_vars>>

\* the task ends and tx is dropped
TaskEnd ==
    /\ pc = "finishing"
    /\ pc' = "done"
    /\ UNCHANGED <<resp, ci, li, full_response, chan, final_response,
                   slot_writes, rx, received>>
    /\ UNCHANGED <<sync_vars, reg_vars, more_vars>>

\* stream.receiver.recv().await returns Some(chunk)
Recv ==
    /\ rx = "open"
    /\ chan # <<>>
    /\ received' = Append(received, Head(chan))
    /\ chan' = Tail(chan)
    /\ UNCHANGED <<resp, pc, ci, li, full_response, final_response,
                   slot_writes, rx>>
    /\ UNCHANGED <<sync_vars, reg_vars, more_vars>>

\* recv() returns None: the channel is empty and every sender is dropped
RecvNone ==
    /\ rx = "open"
    /\ chan = <<>>
    /\ pc = "done"
    /\ rx' = "closed"
    /\ UNCHANGED <<resp, pc, ci, li, full_response, chan, final_response,
                   slot_writes, received>>
    /\ UNCHANGED <<sync_vars, reg_vars, more_vars>>

\* the consumer drops the StreamingResponse without reading to the end
DropReceiver ==
    /\ rx = "open"
    /\ rx' = "dropped"
    /\ chan' = <<>>
    /\ UNCHANGED <<resp, pc, ci, li, full_response, final_response,
                   slot_writes, received>>
    /\ UNCHANGED <<sync_vars, reg_vars, more_vars>>

\* the steps of the spawned producer task
Producer ==
    \/ SendRequest
    \/ EarlyReturn
    \/ NextChunk
    \/ NextLine
    \/ StreamError
    \/ StoreFinal
    \/ TaskEnd

\* the steps of `while let Some(chunk) = stream.receiver.recv().await`
Consumer ==
    \/ Recv
    \/ RecvNone

StreamNext ==
    \/ SendRequest
    \/ EarlyReturn
    \/ NextChunk
    \/ NextLine
    \/ StreamError
    \/ StoreFinal
    \/ TaskEnd
    \/ Recv
    \/ RecvNone
    \/ DropReceiver

----------------------------------------------------------------------------
(* Response sanitizer: clean_command_response *)

IsWhite(c) == c \in {" ", "\n", "\t"}

RECURSIVE trim_start(_)
trim_start(s) ==
    IF s # <<>> /\ IsWhite(Head(s)) THEN trim_start(Tail(s)) ELSE s

RECURSIVE trim_end(_)
trim_end(s) ==
    IF s # <<>> /\ IsWhite(s[Len(s)]) THEN trim_end(SubSeq(s, 1, Len(s) - 1)) ELSE s

\* str::trim
trim(s) == trim_end(trim_start(s))

\* str::starts_with / str::ends_with
starts_with(s, p) == Len(s) >= Len(p) /\ SubSeq(s, 1, Len(p)) = p
ends_with(s, p) == Len(s) >= Len(p) /\ SubSeq(s, Len(s) - Len(p) + 1, Len(s)) = p

\* Option<usize> of find / rfind: the 0-based position, or NotFound for None
NotFound == 0 - 1
find(s, c) ==
    IF \E i \in 1..Len(s) : s[i] = c
    THEN (CHOOSE i \in 1..Len(s) : s[i] = c /\ \A j \in 1..(i - 1) : s[j] # c) - 1
    ELSE NotFound
rfind(s, c) ==
    IF \E i \in 1..Len(s) : s[i] = c
    THEN (CHOOSE i \in 1..Len(s) : s[i] = c /\ \A j \in (i + 1)..Len(s) : s[j] # c) - 1
    ELSE NotFound

\* &s[a..b]: panics when a > b or b > len
slice(s, a, b) ==
    IF a <= b /\ b <= Len(s)
    THEN [panic |-> FALSE, text |-> SubSeq(s, a + 1, b)]
    ELSE [panic |-> TRUE, text |-> <<>>]

\* the backtick character
BT == "BT"

Fence == <<BT, BT, BT>>
\* ["sh ", "bash ", "shell "]
language_prefixes == << <<"s", "h", " ">>,
                        <<"b", "a", "s", "h", " ">>,
                        <<"s", "h", "e", "l", "l", " ">> >>

\* the code-block / backtick branch of clean_command_response
strip_markers(cleaned) ==
    IF starts_with(cleaned, Fence) /\ ends_with(cleaned, Fence)
    THEN IF find(cleaned, "\n") # NotFound
         THEN LET cut == slice(cleaned, find(cleaned, "\n") + 1, rfind(cleaned, "\n"))
              IN  [panic |-> cut.panic, text |-> trim(cut.text)]
         ELSE [panic |-> FALSE, text |-> cleaned]
    ELSE IF starts_with(cleaned, <<BT>>) /\ ends_with(cleaned, <<BT>>)
    THEN LET cut == slice(cleaned, 1, Len(cleaned) - 1)
         IN  [panic |-> cut.panic, text |-> trim(cut.text)]
    ELSE [panic |-> FALSE, text |-> cleaned]

\* the prefix loop of clean_command_response: the first prefix that matches
\* is removed, once
strip_prefix(cleaned) ==
    IF \E k \in 1..Len(language_prefixes) : starts_with(cleaned, language_prefixes[k])
    THEN LET k == CHOOSE k \in 1..Len(language_prefixes) :
                     /\ starts_with(cleaned, language_prefixes[k])
                     /\ \A j \in 1..(k - 1) : ~starts_with(cleaned, language_prefixes[j])
         IN  SubSeq(cleaned, Len(language_prefixes[k]) + 1, Len(cleaned))
    ELSE cleaned

\* faulty variant: the language prefix is removed before the markers are
clean_command_response_prefix_first(response) ==
    LET marked == strip_markers(trim(strip_prefix(trim(response))))
    IN  IF marked.panic THEN marked
        ELSE [panic |-> FALSE, text |-> trim(marked.text)]

clean_command_response(response) ==
    LET marked == strip_markers(trim(response))
    IN  IF marked.panic THEN marked
        ELSE [panic |-> FALSE, text |-> trim(strip_prefix(marked.text))]

----------------------------------------------------------------------------
(* Synchronous invoker: generate_with_timeout, generate_command,           *)
(* interpret_result                                                        *)

\* largest configured timeout_secs enumerated
MaxTimeout == 2
\* largest delay of the service before the headers, and before the body
MaxDelay == 3

\* the contexts the failures of generate_with_timeout carry
TimedOut == "Request to Ollama API timed out"
SendFailed == "Failed to send request to Ollama API"
ReadErrorFailed == "Failed to read error response from Ollama API"
ReadFailed == "Failed to read response from Ollama API"
ApiError == "Ollama API error"
ParseFailed == "Failed to parse response from Ollama API"

\* the failure kind of the error taxonomy that a context stands for
Kind(context) ==
    CASE context = TimedOut -> "Timeout"
      [] context \in {SendFailed, ReadErrorFailed, ReadFailed} -> "TransportError"
      [] context = ApiError -> "ServiceError"
      [] context = ParseFailed -> "MalformedResponse"
      [] OTHER -> "Panic"

Ok(t) == [ok |-> TRUE, error |-> "", text |-> t]
Err(context, t) == [ok |-> FALSE, error |-> context, text |-> t]
NoResult == [ok |-> FALSE, error |-> "pending", text |-> <<>>]

\* anyhow::bail!("Ollama API error: {}", error_text)
FormatServiceError(t) == <<"Ollama API error: ">> \o t

\* the response texts a frame of a synchronous answer may carry
SyncTexts == { <<"l", "s">>,
               <<" ", "l", "s", "\n">>,
               <<BT, "l", "s", BT>>,
               <<"s", "h", " ", "l", "s">>,
               <<BT>>,
               <<>> }

\* the bodies of a non-success answer
ErrorBodies == { ErrorBody, <<" ", "n", "o", "\n">> }

\* the bodies of a success answer
SyncBodies ==
    {FrameLine(t, TRUE) : t \in SyncTexts}
    \cup {BareLine(<<" ", "l", "s">>), OtherLine(<<"l", "s">>), JunkLine}

\* a call, its configuration, and what the service will do with the request
Calls ==
    [ kind : {"generate_command", "interpret_result"},
      timeout_secs : 1..MaxTimeout,
      connect_ok : BOOLEAN,        \* the request can be sent
      head_delay : 0..MaxDelay,    \* when the status line and headers arrive
      status_ok : BOOLEAN,
      body_delay : 0..MaxDelay,    \* how long after the headers the body ends
      body_ok : BOOLEAN,           \* the body is transferred without error
      body : SyncBodies,           \* the body of a success answer
      error_body : ErrorBodies ]   \* the body of a non-success answer

\* faulty variant: the fragment is returned as the service sent it
decode_answer_untrimmed(c) ==
    IF ~c.status_ok THEN Err(ApiError, FormatServiceError(c.error_body))
    ELSE IF ~from_str(c.body).ok THEN Err(ParseFailed, <<>>)
    ELSE Ok(from_str(c.body).response)

\* what the end of the body turns into (lines 446-462)
decode_answer(c) ==
    IF ~c.status_ok THEN Err(ApiError, FormatServiceError(c.error_body))
    ELSE IF ~from_str(c.body).ok THEN Err(ParseFailed, <<>>)
    ELSE Ok(trim(from_str(c.body).response))

\* what a failed body read turns into (lines 447-448, 453-454)
read_failure(c) ==
    IF c.status_ok THEN Err(ReadFailed, <<>>) ELSE Err(ReadErrorFailed, <<>>)

\* faulty variant: the caller turns a failure into an empty answer
callers_result_swallows(kind, r) ==
    IF ~r.ok THEN Ok(<<>>)
    ELSE IF kind = "generate_command"
    THEN LET command == clean_command_response(r.text)
         IN  IF command.panic THEN Err("panic", <<>>) ELSE Ok(command.text)
    ELSE r

\* what the caller of generate_with_timeout returns: `?` hands a failure on,
\* generate_command cleans the text, interpret_result returns it as it is
callers_result(kind, r) ==
    IF ~r.ok THEN r
    ELSE IF kind = "generate_command"
    THEN LET command == clean_command_response(r.text)
         IN  IF command.panic THEN Err("panic", <<>>) ELSE Ok(command.text)
    ELSE r

\* the requests an invocation has sent after sending one more
one_more(n) == n + 1

SyncInit ==
    /\ call \in Calls
    /\ spc = "start"
    /\ clock = 0
    /\ requests = 0
    /\ gwt_result = NoResult
    /\ result = NoResult

\* generate_with_timeout returns r and its caller returns in turn
Returns(r) ==
    /\ gwt_result' = r
    /\ result' = callers_result(call.kind, r)
    /\ spc' = "done"
    /\ UNCHANGED <<call, clock, requests>>
    /\ UNCHANGED <<stream_vars, reg_vars, more_vars>>

\* self.client.post(&url).json(&request).send() under timeout(...)
PostRequest ==
    /\ spc = "start"
    /\ requests' = one_more(requests)
    /\ spc' = "sending"
    /\ UNCHANGED <<call, clock, gwt_result, result>>
    /\ UNCHANGED <<stream_vars, reg_vars, more_vars>>

\* a time unit passes while the call waits for the headers or for the body
Tick ==
    /\ \/ spc = "sending" /\ clock < call.head_delay
       \/ spc = "reading" /\ clock < call.head_delay + call.body_delay
    /\ clock < call.timeout_secs
    /\ clock' = clock + 1
    /\ UNCHANGED <<call, spc, requests, gwt_result, result>>
    /\ UNCHANGED <<stream_vars, reg_vars, more_vars>>

\* the send future resolves to a response: status line and headers are in
HeadersArrive ==
    /\ spc = "sending"
    /\ call.connect_ok
    /\ clock = call.head_delay
    /\ spc' = "reading"
    /\ UNCHANGED <<call, clock, requests, gwt_result, result>>
    /\ UNCHANGED <<stream_vars, reg_vars, more_vars>>

\* the send future resolves to a transport error
SendFails ==
    /\ spc = "sending"
    /\ ~call.connect_ok
    /\ clock = call.head_delay
    /\ Returns(Err(SendFailed, <<>>))

\* tokio's timeout(timeout_duration, response_future) elapses
TimeoutElapses ==
    /\ spc = "sending"
    /\ clock = call.timeout_secs
    /\ Returns(Err(TimedOut, <<>>))

\* the client's own timeout (with_config: Client::builder().timeout(...)),
\* of the same duration, ends the send future with an error
ClientTimeoutSending ==
    /\ spc = "sending"
    /\ clock = call.timeout_secs
    /\ Returns(Err(SendFailed, <<>>))

\* the client's own timeout ends response.text() with an error: the tokio
\* timeout no longer covers this await
ClientTimeoutReading ==
    /\ spc = "reading"
    /\ clock = call.timeout_secs
    /\ Returns(read_failure(call))

\* response.text().await fails on a transport error
ReadFails ==
    /\ spc = "reading"
    /\ ~call.body_ok
    /\ clock = call.head_delay + call.body_delay
    /\ Returns(read_failure(call))

\* response.text().await returns the body
BodyArrives ==
    /\ spc = "reading"
    /\ call.body_ok
    /\ clock = call.head_delay + call.body_delay
    /\ Returns(decode_answer(call))

SyncNext ==
    \/ PostRequest
    \/ Tick
    \/ HeadersArrive
    \/ SendFails
    \/ TimeoutElapses
    \/ ClientTimeoutSending
    \/ ClientTimeoutReading
    \/ ReadFails
    \/ BodyArrives

----------------------------------------------------------------------------
(* Model registry: validate_model *)

\* model names asked for, and names a catalog may list
Names == {"gemma3:12b", "llama3:8b", "phi3:14b"}

\* one entry of the catalog's `models` array: a JSON object with or without
\* a `name`
Entry(n) == [fields |-> {"name"}, name |-> n]
NamelessEntry == [fields |-> {}, name |-> ""]

\* the bodies GET /api/tags may answer with: text that is not JSON, a JSON
\* object without `models`, and catalogs
CatalogBodies ==
    {[json |-> FALSE, fields |-> {}, models |-> <<>>],
     [json |-> TRUE, fields |-> {}, models |-> <<>>]}
    \cup {[json |-> TRUE, fields |-> {"models"}, models |-> m] :
            m \in { <<>>,
                    <<Entry("gemma3:12b")>>,
                    <<Entry("llama3:8b"), Entry("gemma3:12b")>>,
                    <<Entry("phi3:14b"), Entry("llama3:8b")>>,
                    <<Entry("gemma3:12b"), NamelessEntry>> }}

\* response.json::<ModelsResponse>(): `models` is required, and so is the
\* `name` of every entry
catalog_json(body) ==
    IF /\ body.json
       /\ "models" \in body.fields
       /\ \A i \in 1..Len(body.models) : "name" \in body.models[i].fields
    THEN [ok |-> TRUE, models |-> [i \in 1..Len(body.models) |-> body.models[i].name]]
    ELSE [ok |-> FALSE, models |-> <<>>]

OkBool(b) == [ok |-> TRUE, value |-> b, error |-> ""]
ErrBool(context) == [ok |-> FALSE, value |-> FALSE, error |-> context]
NoBool == [ok |-> FALSE, value |-> FALSE, error |-> "pending"]

\* a validate_model call and the service's answer to its GET /api/tags
RegCalls ==
    [ model : Names,
      send_ok : BOOLEAN,
      status_ok : BOOLEAN,
      body : CatalogBodies ]

\* faulty variant: the decode failure is handed on with `?`, as get_available_models does
validate_undecodable_propagates == ErrBool("Failed to parse Ollama API response")

\* the Err arm of response.json() in validate_model
validate_undecodable == OkBool(FALSE)

\* validate_model after the answer to its request is known (lines 545-569)
validate_answer(r) ==
    IF ~r.send_ok THEN OkBool(FALSE)
    ELSE IF ~r.status_ok THEN OkBool(FALSE)
    ELSE IF ~catalog_json(r.body).ok THEN validate_undecodable
    ELSE OkBool(\E i \in 1..Len(catalog_json(r.body).models) :
                    catalog_json(r.body).models[i] = r.model)

RegInit ==
    /\ reg \in RegCalls
    /\ rpc = "start"
    /\ reg_result = NoBool

\* client.get(url).send()
ValidateRequest ==
    /\ rpc = "start"
    /\ rpc' = "sent"
    /\ UNCHANGED <<reg, reg_result>>
    /\ UNCHANGED <<stream_vars, sync_vars, more_vars>>

\* the answer arrives, or the request fails: validate_model returns
ValidateReturns ==
    /\ rpc = "sent"
    /\ reg_result' = validate_answer(reg)
    /\ rpc' = "done"
    /\ UNCHANGED reg
    /\ UNCHANGED <<stream_vars, sync_vars, more_vars>>

RegNext ==
    \/ ValidateRequest
    \/ ValidateReturns

----------------------------------------------------------------------------
(* Model registry: the hosts' catalogs, get_available_models, pull_model *)

\* the host validate_model and pull_model always ask
LOCALHOST == "http://localhost:11434"
\* another host a client may be configured with through with_config
OTHERHOST == "http://ollama.lan:11434"
Hosts == {LOCALHOST, OTHERHOST}

\* tokio::time::sleep(Duration::from_secs(2)) in pull_model
PULL_GRACE_SECS == 2

PlainBody == [json |-> FALSE, fields |-> {}, models |-> <<>>]

\* what a host may answer to GET /api/tags: no connection, a non-success
\* status, or a success status with one of the bodies
TagAnswers ==
    {[send_ok |-> FALSE, status_ok |-> FALSE, body |-> PlainBody],
     [send_ok |-> TRUE, status_ok |-> FALSE, body |-> PlainBody]}
    \cup {[send_ok |-> TRUE, status_ok |-> TRUE, body |-> b] : b \in CatalogBodies}

OkList(models) == [ok |-> TRUE, models |-> models, error |-> ""]
ErrList(context) == [ok |-> FALSE, models |-> <<>>, error |-> context]
NoList == [ok |-> FALSE, models |-> <<>>, error |-> "pending"]

\* get_available_models once the answer of {config.api_url}/api/tags is known
get_available_models(url) ==
    IF ~tags[url].send_ok THEN ErrList("Failed to connect to Ollama API")
    ELSE IF ~tags[url].status_ok THEN ErrList("Ollama API error")
    ELSE IF ~catalog_json(tags[url].body).ok
         THEN ErrList("Failed to parse Ollama API response")
    ELSE OkList(catalog_json(tags[url].body).models)

\* the url validate_model asks: a literal, not the client's configuration
validate_url == LOCALHOST

\* validate_model(model) against the answer of a host
validate_at(model, answer) ==
    validate_answer([model |-> model, send_ok |-> answer.send_ok,
                     status_ok |-> answer.status_ok, body |-> answer.body])

\* validate_model(model)
validate_model(model) == validate_at(model, tags[validate_url])

ListInit ==
    /\ tags \in [Hosts -> TagAnswers]
    /\ api_url \in Hosts
    /\ asked \in Names
    /\ list_result = NoList
    /\ valid_result = NoBool

\* client.get_available_models()
ListModels ==
    /\ list_result' = get_available_models(api_url)
    /\ list_result' # list_result
    /\ UNCHANGED <<tags, api_url, asked, valid_result>>
    /\ UNCHANGED <<stream_vars, sync_vars, reg_vars, pull_vars, client_vars, san_vars, main_vars>>

\* validate_model(asked)
ValidateModel ==
    /\ valid_result' = validate_model(asked)
    /\ valid_result' # valid_result
    /\ UNCHANGED <<tags, api_url, asked, list_result>>
    /\ UNCHANGED <<stream_vars, sync_vars, reg_vars, pull_vars, client_vars, san_vars, main_vars>>

ListNext ==
    \/ ListModels
    \/ ValidateModel

ListIdle ==
    /\ api_url = LOCALHOST
    /\ asked = "none"
    /\ list_result = NoList
    /\ valid_result = NoBool

SvcIdle == tags = [h \in Hosts |-> [send_ok |-> FALSE, status_ok |-> FALSE, body |-> PlainBody]]

\* a pull_model call and the service's answer to its POST /api/pull
PullCalls ==
    [ model : Names,
      send_ok : BOOLEAN,
      status_ok : BOOLEAN ]

\* faulty variant: the initial validation is ignored and the pull is always requested
already_available_ignored(v) == FALSE

\* `if validate_model(model).await?` is true: the model is already available
already_available(v) == v.value

\* faulty variant: an accepted pull is taken for an installed model
pull_outcome_assumed(v) == OkBool(TRUE)

\* Ok(validate_model(model).await?) at the end of pull_model
pull_outcome(v) == IF v.ok THEN OkBool(v.value) ELSE v

PullInit ==
    /\ tags \in [Hosts -> TagAnswers]
    /\ pull \in PullCalls
    /\ ppc = "validate"
    /\ probes = <<>>
    /\ installs = 0
    /\ slept = 0
    /\ pull_result = NoBool

\* pull_model, lines 574-576: the initial validate_model(model).await?
PullValidate ==
    /\ ppc = "validate"
    /\ probes' = Append(probes, tags[validate_url])
    /\ LET v == validate_model(pull.model) IN
         IF ~v.ok THEN /\ ppc' = "done"
                       /\ pull_result' = v
         ELSE IF already_available(v)
              THEN /\ ppc' = "done"
                   /\ pull_result' = OkBool(TRUE)
              ELSE /\ ppc' = "install"
                   /\ UNCHANGED pull_result
    /\ UNCHANGED <<tags, pull, installs, slept>>
    /\ UNCHANGED <<stream_vars, sync_vars, reg_vars, list_vars, client_vars, san_vars, main_vars>>

\* pull_model, lines 580-596: POST /api/pull and the two ways it fails
PullPost ==
    /\ ppc = "install"
    /\ installs' = installs + 1
    /\ IF ~pull.send_ok
       THEN /\ ppc' = "done"
            /\ pull_result' = ErrBool("Failed to connect to Ollama API for model pull")
       ELSE IF ~pull.status_ok
            THEN /\ ppc' = "done"
                 /\ pull_result' = ErrBool("Failed to pull model")
            ELSE /\ ppc' = "sleep"
                 /\ UNCHANGED pull_result
    /\ UNCHANGED <<tags, pull, probes, slept>>
    /\ UNCHANGED <<stream_vars, sync_vars, reg_vars, list_vars, client_vars, san_vars, main_vars>>

\* one second of tokio::time::sleep passes
GraceTick ==
    /\ ppc = "sleep"
    /\ slept < PULL_GRACE_SECS
    /\ slept' = slept + 1
    /\ UNCHANGED <<tags, pull, ppc, probes, installs, pull_result>>
    /\ UNCHANGED <<stream_vars, sync_vars, reg_vars, list_vars, client_vars, san_vars, main_vars>>

\* pull_model, line 600: the second validate_model, whose answer is returned
PullRevalidate ==
    /\ ppc = "sleep"
    /\ slept = PULL_GRACE_SECS
    /\ probes' = Append(probes, tags[validate_url])
    /\ pull_result' = pull_outcome(validate_model(pull.model))
    /\ ppc' = "done"
    /\ UNCHANGED <<tags, pull, installs, slept>>
    /\ UNCHANGED <<stream_vars, sync_vars, reg_vars, list_vars, client_vars, san_vars, main_vars>>

\* the service, between the requests of a pull: a model finishes installing,
\* the catalog is edited, the service goes away or comes back
CatalogChanges ==
    /\ ppc \in {"install", "sleep"}
    /\ \E a \in TagAnswers :
         /\ a # tags[validate_url]
         /\ tags' = [tags EXCEPT ![validate_url] = a]
    /\ UNCHANGED pull_vars
    /\ UNCHANGED <<stream_vars, sync_vars, reg_vars, list_vars, client_vars, san_vars, main_vars>>

PullNext ==
    \/ PullValidate
    \/ PullPost
    \/ GraceTick
    \/ PullRevalidate
    \/ CatalogChanges

PullIdle ==
    /\ pull = [model |-> "none"]
    /\ ppc = "idle"
    /\ probes = <<>>
    /\ installs = 0
    /\ slept = 0
    /\ pull_result = NoBool

----------------------------------------------------------------------------
(* The client: configuration, mutators, the requests it builds *)

\* calls of the interactive loop that have pushed a history item
MaxHistory == 5

\* history.iter().rev().take(3)
HISTORY_WINDOW == 3

\* f32 values in hundredths; NaN and the infinities beside the finite ones
F(v) == [nan |-> FALSE, v |-> v]
NaN == [nan |-> TRUE, v |-> 0]
INFINITY == F(1000000)
NEG_INFINITY == F(0 - 1000000)

\* temperatures a caller may pass to with_config or set_temperature
Temps == {NaN, NEG_INFINITY, F(0 - 500), F(0 - 1), F(0), F(42), F(70), F(100),
          F(101), F(500), INFINITY}

\* f32::max and f32::min: a NaN operand is ignored in favour of the other
f32_max(a, b) == IF a.nan THEN b ELSE IF b.nan THEN a
                 ELSE IF a.v >= b.v THEN a ELSE b
f32_min(a, b) == IF a.nan THEN b ELSE IF b.nan THEN a
                 ELSE IF a.v <= b.v THEN a ELSE b

\* OllamaConfig::default()
DefaultConfig == [api_url |-> LOCALHOST, model |-> "gemma3:12b", temperature |-> F(70)]

\* the OllamaConfig values a caller may hand to with_config
Configs == [api_url : Hosts, model : Names, temperature : Temps]

\* with_config stores the configuration as it is given
with_config(c) == c

\* temperature.max(0.0).min(1.0)
clamp_temperature(temperature) == f32_min(f32_max(temperature, F(0)), F(100))

\* the k-th item the interactive loop pushes
HistoryItems ==
    << [user_input |-> "u1", command |-> "c1", result |-> "r1"],
       [user_input |-> "u2", command |-> "c2", result |-> "r2"],
       [user_input |-> "u3", command |-> "c3", result |-> "r3"],
       [user_input |-> "u4", command |-> "c4", result |-> "r4"],
       [user_input |-> "u5", command |-> "c5", result |-> "r5"],
       [user_input |-> "u6", command |-> "c6", result |-> "r6"],
       [user_input |-> "u7", command |-> "c7", result |-> "r7"] >>

\* format!("{}", i) for the small positive integers
to_string(i) == <<"1", "2", "3", "4", "5", "6", "7", "8">>[i]

\* iter().rev() and take(k)
rev(s) == [i \in 1..Len(s) |-> s[Len(s) + 1 - i]]
take(s, k) == SubSeq(s, 1, IF k < Len(s) THEN k ELSE Len(s))

\* faulty variant: the window is taken from the front of the history
recent_oldest(h) == take(h, HISTORY_WINDOW)

\* history.iter().rev().take(3)
recent(h) == take(rev(h), HISTORY_WINDOW)

\* the format! of one history item; i is the index enumerate() gives
history_entry(i, item) ==
    <<"Request ", to_string(i + 1), ": ", item.user_input,
      "\nCommand: ", item.command, "\nResult: ", item.result, "\n\n">>

\* generate_command, lines 197-212
history_context(h) ==
    IF h # <<>>
    THEN <<"Here are some previous interactions:\n\n">>
         \o Concat([i \in 1..Len(recent(h)) |-> history_entry(i - 1, recent(h)[i])])
    ELSE <<"No previous interaction history.">>

\* generate_command, lines 215-219
command_prompt(user_input, h) ==
    <<"Generate a shell command that accomplishes the following security task:\n\n",
      user_input, "\n\n">> \o history_context(h)

\* interpret_result, lines 267-283
interpret_prompt(res, h) ==
    (IF h # <<>>
     THEN <<"For the request: ", h[Len(h)].user_input,
            "\nThe following command was executed: ", h[Len(h)].command, "\n\n">>
     ELSE <<"No command context available.">>)
    \o <<"Here is the result of the command execution:\n\n", res,
         "\n\nPlease provide a detailed interpretation of these results from a security perspective.">>

\* the OllamaRequest of generate_with_timeout (stream false) and of
\* stream_response (stream true)
OllamaRequest(prompt, stream) ==
    [ url |-> <<config.api_url, "/api/generate">>,
      model |-> config.model,
      prompt |-> prompt,
      stream |-> stream,
      temperature |-> config.temperature ]

NoRequest == [url |-> <<>>, model |-> "none", prompt |-> <<>>, stream |-> FALSE,
              temperature |-> F(0)]

Called(op, model, temperature) == [op |-> op, model |-> model, temperature |-> temperature]

ClientInit ==
    /\ config \in {with_config(DefaultConfig)} \cup {with_config(c) : c \in Configs}
    /\ history = <<>>
    /\ request = NoRequest
    /\ last_call = Called("with_config", config.model, config.temperature)

\* client.set_model(model)
set_model ==
    \E model \in Names :
        /\ config' = [config EXCEPT !.model = model]
        /\ last_call' = Called("set_model", model, F(0))
        /\ request' = NoRequest
        /\ UNCHANGED history
        /\ UNCHANGED <<stream_vars, sync_vars, reg_vars, svc_vars, list_vars, pull_vars, san_vars, main_vars>>

\* client.set_temperature(temperature)
set_temperature ==
    \E temperature \in Temps :
        /\ config' = [config EXCEPT !.temperature = clamp_temperature(temperature)]
        /\ last_call' = Called("set_temperature", "none", temperature)
        /\ request' = NoRequest
        /\ UNCHANGED history
        /\ UNCHANGED <<stream_vars, sync_vars, reg_vars, svc_vars, list_vars, pull_vars, san_vars, main_vars>>

\* history.push(HistoryItem {..}) of the interactive loop
PushHistory ==
    /\ Len(history) < MaxHistory
    /\ history' = Append(history, HistoryItems[Len(history) + 1])
    /\ last_call' = Called("push", "none", F(0))
    /\ request' = NoRequest
    /\ UNCHANGED config
    /\ UNCHANGED <<stream_vars, sync_vars, reg_vars, svc_vars, list_vars, pull_vars, san_vars, main_vars>>

\* client.generate_command(user_input, &history) builds and sends its request
GenerateCommand ==
    /\ request' = OllamaRequest(command_prompt("task", history), FALSE)
    /\ last_call' = Called("generate_command", "none", F(0))
    /\ UNCHANGED <<config, history>>
    /\ UNCHANGED <<stream_vars, sync_vars, reg_vars, svc_vars, list_vars, pull_vars, san_vars, main_vars>>

\* client.interpret_result(result, &history) builds and sends its request
InterpretResult ==
    /\ request' = OllamaRequest(interpret_prompt("output", history), FALSE)
    /\ last_call' = Called("interpret_result", "none", F(0))
    /\ UNCHANGED <<config, history>>
    /\ UNCHANGED <<stream_vars, sync_vars, reg_vars, svc_vars, list_vars, pull_vars, san_vars, main_vars>>

\* client.stream_response(prompt, system) builds and sends its request
StreamResponse ==
    /\ request' = OllamaRequest(<<"Explain in detail", "task">>, TRUE)
    /\ last_call' = Called("stream_response", "none", F(0))
    /\ UNCHANGED <<config, history>>
    /\ UNCHANGED <<stream_vars, sync_vars, reg_vars, svc_vars, list_vars, pull_vars, san_vars, main_vars>>

ClientNext ==
    \/ set_model
    \/ set_temperature
    \/ PushHistory
    \/ GenerateCommand
    \/ InterpretResult
    \/ StreamResponse

ClientIdle ==
    /\ config = DefaultConfig
    /\ history = <<>>
    /\ request = NoRequest
    /\ last_call = Called("none", "none", F(0))

----------------------------------------------------------------------------
(* The sanitizer applied to response texts *)

\* characters of the interior of an enumerated response text
MaxInner == 4

SanAlphabet == {BT, "\n", " ", "s", "h"}
Inners == SeqsUpTo(SanAlphabet, MaxInner)

\* the language tags of an opening fence: none, bash
Tags == {<<>>, <<"b", "a", "s", "h">>}

\* the inputs of test_clean_command_response and the outputs it expects
TestInputs ==
    << Fence \o <<"b", "a", "s", "h", "\n", "l", "s", " ", "-", "l", "a", "\n">> \o Fence,
       <<BT, "l", "s", " ", "-", "l", "a", BT>>,
       <<"s", "h", " ", "echo", " ", "hello">>,
       <<"b", "a", "s", "h", " ", "echo", " ", "hello">> >>
TestExpected ==
    << <<"l", "s", " ", "-", "l", "a">>,
       <<"l", "s", " ", "-", "l", "a">>,
       <<"echo", " ", "hello">>,
       <<"echo", " ", "hello">> >>

\* how a response text is put together: an interior, possibly behind a
\* language prefix, as it is or wrapped in backticks, in fences on lines of
\* their own, or in fences without line breaks; possibly with whitespace around
Origins ==
    [ shape : {"raw", "ticked", "bare"}, tag : {<<>>}, prefix : 0..Len(language_prefixes),
      inner : Inners, padded : BOOLEAN, test : {0} ]
    \cup [ shape : {"fenced"}, tag : Tags, prefix : 0..Len(language_prefixes),
           inner : Inners, padded : BOOLEAN, test : {0} ]
    \cup [ shape : {"test"}, tag : {<<>>}, prefix : {0},
           inner : {<<>>}, padded : {FALSE}, test : 1..Len(TestInputs) ]

\* the interior of a response text
Interior(o) ==
    IF o.prefix = 0 THEN o.inner ELSE language_prefixes[o.prefix] \o o.inner

\* the response text
Render(o) ==
    LET text == CASE o.shape = "raw" -> Interior(o)
                  [] o.shape = "ticked" -> <<BT>> \o Interior(o) \o <<BT>>
                  [] o.shape = "bare" -> Fence \o Interior(o) \o Fence
                  [] o.shape = "fenced" ->
                        Fence \o o.tag \o <<"\n">> \o Interior(o) \o <<"\n">> \o Fence
                  [] o.shape = "test" -> TestInputs[o.test]
    IN  IF o.padded THEN <<" ">> \o text \o <<"\n">> ELSE text

NotCleaned == [panic |-> FALSE, text |-> <<"pending">>]

SanInit ==
    /\ origin \in Origins
    /\ input = Render(origin)
    /\ san = 0
    /\ once = NotCleaned
    /\ twice = NotCleaned

\* self.clean_command_response(&response)
Sanitize ==
    /\ san = 0
    /\ once' = clean_command_response(input)
    /\ san' = 1
    /\ UNCHANGED <<origin, input, twice>>
    /\ UNCHANGED <<stream_vars, sync_vars, reg_vars, svc_vars, list_vars, pull_vars, client_vars, main_vars>>

\* the sanitizer applied to the text it returned
SanitizeAgain ==
    /\ san = 1
    /\ ~once.panic
    /\ twice' = clean_command_response(once.text)
    /\ san' = 2
    /\ UNCHANGED <<origin, input, once>>
    /\ UNCHANGED <<stream_vars, sync_vars, reg_vars, svc_vars, list_vars, pull_vars, client_vars, main_vars>>

SanNext ==
    \/ Sanitize
    \/ SanitizeAgain

SanIdle ==
    /\ origin = [shape |-> "none"]
    /\ input = <<>>
    /\ san = 0
    /\ once = NotCleaned
    /\ twice = NotCleaned

----------------------------------------------------------------------------
(* The interactive program: main.rs, start-up and the switch command *)

\* before OllamaClient::with_config there is no client
NoClient == [api_url |-> "none", model |-> "none", temperature |-> F(0)]

\* the answers to POST /api/pull
PullAnswers == [send_ok : BOOLEAN, status_ok : BOOLEAN]

\* pull_model(model): first is the catalog answer to its initial validation,
\* post the answer to POST /api/pull, second the catalog answer after the grace
pull_model(model, first, post, second) ==
    LET v == validate_at(model, first) IN
      IF ~v.ok THEN v
      ELSE IF already_available(v) THEN OkBool(TRUE)
      ELSE IF ~post.send_ok THEN ErrBool("Failed to connect to Ollama API for model pull")
      ELSE IF ~post.status_ok THEN ErrBool("Failed to pull model")
      ELSE pull_outcome(validate_at(model, second))

\* faulty variant: a pull that returned false does not stop the switch
pull_refused_ignored(r) == FALSE

\* `if !pull_model(&new_model).await?` is taken
pull_refused(r) == ~r.value

MainInit ==
    /\ tags \in {t \in [Hosts -> TagAnswers] : t[OTHERHOST] = [send_ok |-> FALSE, status_ok |-> FALSE, body |-> PlainBody]}
    /\ mpc = "boot"
    /\ selected = "none"
    /\ client = NoClient
    /\ approved = {}

\* check_ollama_running: a success answer of localhost's /api/tags
CheckRunning ==
    /\ mpc = "boot"
    /\ mpc' = IF tags[LOCALHOST].send_ok /\ tags[LOCALHOST].status_ok
              THEN "select_first" ELSE "exit"
    /\ UNCHANGED <<tags, selected, client, approved>>
    /\ UNCHANGED <<stream_vars, sync_vars, reg_vars, list_vars, pull_vars, client_vars, san_vars>>

\* let model = select_model().await?
SelectFirst ==
    /\ mpc = "select_first"
    /\ selected' \in Names
    /\ mpc' = "validate_first"
    /\ UNCHANGED <<tags, client, approved>>
    /\ UNCHANGED <<stream_vars, sync_vars, reg_vars, list_vars, pull_vars, client_vars, san_vars>>

\* if !validate_model(&model).await?
ValidateFirst ==
    /\ mpc = "validate_first"
    /\ LET v == validate_model(selected) IN
         IF ~v.ok THEN mpc' = "failed" /\ UNCHANGED approved
         ELSE IF v.value THEN mpc' = "build" /\ approved' = approved \cup {selected}
         ELSE mpc' = "ask_first" /\ UNCHANGED approved
    /\ UNCHANGED <<tags, selected, client>>
    /\ UNCHANGED <<stream_vars, sync_vars, reg_vars, list_vars, pull_vars, client_vars, san_vars>>

\* the answer to "Would you like to pull it from Ollama repository? (y/n)"
AskFirst ==
    /\ mpc = "ask_first"
    /\ \E yes \in BOOLEAN : mpc' = IF yes THEN "pull_first" ELSE "exit"
    /\ UNCHANGED <<tags, selected, client, approved>>
    /\ UNCHANGED <<stream_vars, sync_vars, reg_vars, list_vars, pull_vars, client_vars, san_vars>>

\* if !pull_model(&model).await? { return Ok(()) }
PullFirst ==
    /\ mpc = "pull_first"
    /\ \E post \in PullAnswers, second \in TagAnswers :
         LET r == pull_model(selected, tags[validate_url], post, second) IN
           /\ tags' = [tags EXCEPT ![validate_url] = second]
           /\ IF ~r.ok THEN mpc' = "failed" /\ UNCHANGED approved
              ELSE IF ~r.value THEN mpc' = "exit" /\ UNCHANGED approved
              ELSE mpc' = "build" /\ approved' = approved \cup {selected}
    /\ UNCHANGED <<selected, client>>
    /\ UNCHANGED <<stream_vars, sync_vars, reg_vars, list_vars, pull_vars, client_vars, san_vars>>

\* OllamaClient::with_config(OllamaConfig { model, temperature: 0.7, .. })
BuildClient ==
    /\ mpc = "build"
    /\ client' = with_config([DefaultConfig EXCEPT !.model = selected,
                                                   !.temperature = F(70)])
    /\ mpc' = "prompt"
    /\ UNCHANGED <<tags, selected, approved>>
    /\ UNCHANGED <<stream_vars, sync_vars, reg_vars, list_vars, pull_vars, client_vars, san_vars>>

\* one line read at the prompt: exit, quit, switch or model
ReadInput ==
    /\ mpc = "prompt"
    /\ \E line \in {"exit", "quit", "switch", "model"} :
         mpc' = IF line \in {"exit", "quit"} THEN "exit" ELSE "select"
    /\ UNCHANGED <<tags, selected, client, approved>>
    /\ UNCHANGED <<stream_vars, sync_vars, reg_vars, list_vars, pull_vars, client_vars, san_vars>>

\* the service while the program waits at the prompt: models are installed or
\* removed, the service stops or comes back
ServiceChanges ==
    /\ mpc = "prompt"
    /\ \E a \in TagAnswers :
         /\ a # tags[validate_url]
         /\ tags' = [tags EXCEPT ![validate_url] = a]
    /\ UNCHANGED main_vars
    /\ UNCHANGED <<stream_vars, sync_vars, reg_vars, list_vars, pull_vars, client_vars, san_vars>>

\* let new_model = select_model().await?
SelectNew ==
    /\ mpc = "select"
    /\ selected' \in Names
    /\ mpc' = "validate"
    /\ UNCHANGED <<tags, client, approved>>
    /\ UNCHANGED <<stream_vars, sync_vars, reg_vars, list_vars, pull_vars, client_vars, san_vars>>

\* if !validate_model(&new_model).await?
ValidateNew ==
    /\ mpc = "validate"
    /\ LET v == validate_model(selected) IN
         IF ~v.ok THEN mpc' = "failed" /\ UNCHANGED approved
         ELSE IF v.value THEN mpc' = "set" /\ approved' = approved \cup {selected}
         ELSE mpc' = "ask" /\ UNCHANGED approved
    /\ UNCHANGED <<tags, selected, client>>
    /\ UNCHANGED <<stream_vars, sync_vars, reg_vars, list_vars, pull_vars, client_vars, san_vars>>

\* the answer to "Would you like to pull it? (y/n)"; else "Keeping current
\* model." and `continue`
AskNew ==
    /\ mpc = "ask"
    /\ \E yes \in BOOLEAN : mpc' = IF yes THEN "pull" ELSE "prompt"
    /\ UNCHANGED <<tags, selected, client, approved>>
    /\ UNCHANGED <<stream_vars, sync_vars, reg_vars, list_vars, pull_vars, client_vars, san_vars>>

\* if !pull_model(&new_model).await? { continue; }
PullNew ==
    /\ mpc = "pull"
    /\ \E post \in PullAnswers, second \in TagAnswers :
         LET r == pull_model(selected, tags[validate_url], post, second) IN
           /\ tags' = [tags EXCEPT ![validate_url] = second]
           /\ IF ~r.ok THEN mpc' = "failed" /\ UNCHANGED approved
              ELSE IF pull_refused(r) THEN mpc' = "prompt" /\ UNCHANGED approved
              ELSE /\ mpc' = "set"
                   /\ approved' = IF r.value THEN approved \cup {selected}
                                  ELSE approved
    /\ UNCHANGED <<selected, client>>
    /\ UNCHANGED <<stream_vars, sync_vars, reg_vars, list_vars, pull_vars, client_vars, san_vars>>

\* client.set_model(&new_model)
SetModel ==
    /\ mpc = "set"
    /\ client' = [client EXCEPT !.model = selected]
    /\ mpc' = "prompt"
    /\ UNCHANGED <<tags, selected, approved>>
    /\ UNCHANGED <<stream_vars, sync_vars, reg_vars, list_vars, pull_vars, client_vars, san_vars>>

MainNext ==
    \/ CheckRunning
    \/ SelectFirst
    \/ ValidateFirst
    \/ AskFirst
    \/ PullFirst
    \/ BuildClient
    \/ ReadInput
    \/ ServiceChanges
    \/ SelectNew
    \/ ValidateNew
    \/ AskNew
    \/ PullNew
    \/ SetModel

MainIdle ==
    /\ mpc = "idle"
    /\ selected = "none"
    /\ client = NoClient
    /\ approved = {}

----------------------------------------------------------------------------
(* Specifications *)

StreamIdle ==
    /\ resp = [send_ok |-> FALSE, status_ok |-> FALSE, text_ok |-> FALSE,
               stream |-> <<>>, wire |-> <<>>]
    /\ pc = "idle"
    /\ ci = 1
    /\ li = 1
    /\ full_response = <<>>
    /\ chan = <<>>
    /\ final_response = None
    /\ slot_writes = 0
    /\ rx = "idle"
    /\ received = <<>>

SyncIdle ==
    /\ call = [kind |-> "none"]
    /\ spc = "idle"
    /\ clock = 0
    /\ requests = 0
    /\ gwt_result = NoResult
    /\ result = NoResult

RegIdle ==
    /\ reg = [model |-> "none"]
    /\ rpc = "idle"
    /\ reg_result = NoBool

MoreIdle == SvcIdle /\ ListIdle /\ PullIdle /\ ClientIdle /\ SanIdle /\ MainIdle

Init == StreamInit /\ SyncIdle /\ RegIdle /\ MoreIdle
Next == StreamNext
Spec == Init /\ [][Next]_vars

\* The streaming call with a consumer that reads until closure and never
\* drops the receiver. The runtime keeps polling the spawned task while it
\* can make progress, the request completes and the body ends or errors, and
\* the consumer's loop keeps calling recv(): weak fairness of both.
NextLive == Producer \/ Consumer
SpecLive == Init /\ [][NextLive]_vars /\ WF_vars(Producer) /\ WF_vars(Consumer)

InitSync == SyncInit /\ StreamIdle /\ RegIdle /\ MoreIdle
NextSync == SyncNext
SpecSync == InitSync /\ [][NextSync]_vars

InitReg == RegInit /\ StreamIdle /\ SyncIdle /\ MoreIdle
NextReg == RegNext
SpecReg == InitReg /\ [][NextReg]_vars

InitList == ListInit /\ StreamIdle /\ SyncIdle /\ RegIdle /\ PullIdle /\ ClientIdle /\ SanIdle /\ MainIdle
NextList == ListNext
SpecList == InitList /\ [][NextList]_vars

InitPull == PullInit /\ StreamIdle /\ SyncIdle /\ RegIdle /\ ListIdle /\ ClientIdle /\ SanIdle /\ MainIdle
NextPull == PullNext
SpecPull == InitPull /\ [][NextPull]_vars

InitClient == ClientInit /\ StreamIdle /\ SyncIdle /\ RegIdle /\ SvcIdle /\ ListIdle /\ PullIdle /\ SanIdle /\ MainIdle
NextClient == ClientNext
SpecClient == InitClient /\ [][NextClient]_vars

InitSan == SanInit /\ StreamIdle /\ SyncIdle /\ RegIdle /\ SvcIdle /\ ListIdle /\ PullIdle /\ ClientIdle /\ MainIdle
NextSan == SanNext
SpecSan == InitSan /\ [][NextSan]_vars

InitMain == MainInit /\ StreamIdle /\ SyncIdle /\ RegIdle /\ ListIdle /\ PullIdle /\ ClientIdle /\ SanIdle
NextMain == MainNext
SpecMain == InitMain /\ [][NextMain]_vars

----------------------------------------------------------------------------
(* Properties of the streaming invoker (checked under Spec) *)

RECURSIVE AllLines(_)
\* the lines of a body, chunk after chunk
AllLines(stream) ==
    IF stream = <<>> THEN <<>> ELSE Head(stream).lines \o AllLines(Tail(stream))

\* the service accepted the request: success status, a body follows
Accepted == resp.send_ok /\ resp.status_ok

\* the body is a fixture of N >= 1 well-formed frames, `done` on the last
\* only, delivered without transport error
Fixture ==
    /\ Accepted
    /\ \A c \in 1..Len(resp.stream) : ~resp.stream[c].err /\ resp.stream[c].utf8
    /\ LET ls == AllLines(resp.stream)
       IN  /\ Len(ls) >= 1
           /\ \A i \in 1..Len(ls) :
                /\ ls[i].json
                /\ {"model", "response"} \subseteq ls[i].fields
                /\ ("done" \in ls[i].fields /\ ls[i].done) <=> (i = Len(ls))

\* the items of a sequence of channel items that are response fragments
Fragments(items) == SelectSeq(items, LAMBDA t : t \notin Diagnostics)

\* everything that went through the channel so far, in order
Through == received \o chan

\* the producer has decoded a frame with done = true: one of the chunks it
\* is through with holds one
DoneDecoded ==
    \E c \in 1..(ci - 1) :
        /\ c <= Len(resp.stream)
        /\ ~resp.stream[c].err
        /\ resp.stream[c].utf8
        /\ \E l \in 1..Len(resp.stream[c].lines) :
             LET line == resp.stream[c].lines[l]
             IN  /\ line.json
                 /\ {"model", "response"} \subseteq line.fields
                 /\ "done" \in line.fields
                 /\ line.done

\* C1: for a fixture stream of N frames with `done` only on the last, the
\* concatenation of the fragments the consumer received before the channel
\* closed equals the text then read from the shared slot.
C1_ConcatEqualsSlot ==
    (Fixture /\ rx = "closed") => final_response = Some(Concat(received))

C1_Witness ==
    /\ Fixture
    /\ rx = "closed"
    /\ Len(received) >= 2
    /\ final_response = Some(Concat(received))

\* C2: the slot is written at most once, and once it is written no fragment
\* is sent on the channel any more and the slot keeps its value.
C2_WriteOnceAfterSending ==
    [][ /\ slot_writes' <= 1
        /\ final_response # None =>
             /\ Len(chan') <= Len(chan)
             /\ full_response' = full_response
             /\ final_response' = final_response ]_vars

C2_Witness ==
    /\ slot_writes = 1
    /\ final_response # None
    /\ Len(Through) >= 2
    /\ pc = "done"

\* C3 as claimed: in every producer outcome, when the consumer observes the
\* closure the slot has been written exactly once and holds the accumulated
\* text.
C3_SlotWrittenInEveryOutcome ==
    rx = "closed" =>
        /\ slot_writes = 1
        /\ final_response = Some(Concat(Fragments(received)))

\* C3 as amended: when the request was answered with a success status (the
\* body ends normally or with a transport error), the slot has been written
\* exactly once and holds the accumulated text by the time the consumer
\* observes the closure; when the request could not be sent or was answered
\* with a non-success status, the slot is never written and stays None.
C3_SlotWrittenWhenAccepted ==
    /\ rx = "closed" /\ Accepted =>
         /\ slot_writes = 1
         /\ final_response = Some(Concat(Fragments(received)))
    /\ ~Accepted => (slot_writes = 0 /\ final_response = None)

C3_Witness ==
    /\ rx = "closed"
    /\ Accepted
    /\ \E c \in 1..Len(resp.stream) : resp.stream[c].err
    /\ slot_writes = 1
    /\ Len(Fragments(received)) >= 1

\* C4: once the producer has decoded a frame with done = true, no further
\* fragment is forwarded to the channel or appended to the accumulated text.
C4_DoneEndsReadLoop ==
    [][ DoneDecoded =>
          /\ full_response' = full_response
          /\ Len(Fragments(chan')) <= Len(Fragments(chan)) ]_vars

\* C5: the channel never holds more than 100 pending fragments, a producer
\* facing a full channel is suspended, and while the consumer keeps the
\* receiver, what went through the channel is every decoded fragment, once
\* and in decoding order.
C5_BoundedLossless ==
    /\ Len(chan) <= CHANNEL_CAPACITY
    /\ (/\ rx = "open"
        /\ Len(chan) = CHANNEL_CAPACITY
        /\ pc = "lines"
        /\ li <= Len(resp.stream[ci].lines)
        /\ from_str(resp.stream[ci].lines[li]).ok) => ~ENABLED NextLine
    /\ rx # "dropped" =>
         /\ \A i \in 1..Len(Fragments(Through)) : Len(Fragments(Through)[i]) = 1
         /\ Concat(Fragments(Through)) = full_response

C5_Witness ==
    /\ rx = "open"
    /\ Len(chan) = CHANNEL_CAPACITY
    /\ pc = "lines"
    /\ li <= Len(resp.stream[ci].lines)
    /\ Len(received) >= 1

\* C6: when the request cannot be sent or is answered with a non-success
\* status, exactly one diagnostic fragment goes through the channel, the
\* producer never enters the read loop, and the consumer receives that one
\* fragment and then the closure.
C6_SingleDiagnostic ==
    ~Accepted =>
        /\ pc \in {"request", "early", "done"}
        /\ Len(Through) <= 1
        /\ \A i \in 1..Len(Through) :
             /\ Through[i] \in Diagnostics
             /\ Head(Through[i]) = IF resp.send_ok THEN "API Error: " ELSE "Error: "
        /\ pc = "done" /\ rx # "dropped" => Len(Through) = 1
        /\ rx = "closed" => Len(received) = 1

C6_Witness ==
    /\ ~Accepted
    /\ resp.send_ok
    /\ rx = "closed"
    /\ Len(received) = 1

----------------------------------------------------------------------------
(* Properties of the synchronous invoker (checked under SpecSync) *)

\* nothing, neither an answer nor a transport error, can reach the client
\* before the configured timeout has elapsed
NoAnswerInTime ==
    \/ call.head_delay > call.timeout_secs
    \/ call.connect_ok /\ call.head_delay + call.body_delay > call.timeout_secs

\* the whole answer reaches the client before the timeout elapses
AnswerInTime ==
    /\ call.connect_ok
    /\ call.body_ok
    /\ call.head_delay + call.body_delay < call.timeout_secs

\* t is s without its leading and trailing whitespace
IsTrimOf(t, s) ==
    /\ t # <<>> => ~IsWhite(t[1]) /\ ~IsWhite(t[Len(t)])
    /\ \E a \in 0..Len(s) : \E b \in a..Len(s) :
         /\ SubSeq(s, a + 1, b) = t
         /\ \A i \in 1..a : IsWhite(s[i])
         /\ \A i \in (b + 1)..Len(s) : IsWhite(s[i])

\* C7: a synchronous call returns a Timeout failure whenever the service has
\* not produced a response within the configured timeout.
C7_TimeoutSurfaces ==
    (spc = "done" /\ NoAnswerInTime) =>
        (~gwt_result.ok /\ Kind(gwt_result.error) = "Timeout")

\* C8: an invocation sends at most one request, and every failure of
\* generate_with_timeout is what generate_command / interpret_result return.
C8_OneRequestNoSwallow ==
    /\ requests <= 1
    /\ spc = "done" =>
         /\ requests = 1
         /\ ~gwt_result.ok => result = gwt_result

C8_Witness ==
    /\ spc = "done"
    /\ requests = 1
    /\ ~result.ok
    /\ Kind(result.error) = "MalformedResponse"

\* C9: an answer that arrives in time decides the result: non-success gives
\* ServiceError with the body verbatim, success with an undecodable body
\* gives MalformedResponse, success with a frame gives its trimmed fragment.
C9_ResultFollowsAnswer ==
    (spc = "done" /\ AnswerInTime) =>
        IF ~call.status_ok
        THEN /\ ~gwt_result.ok
             /\ Kind(gwt_result.error) = "ServiceError"
             /\ gwt_result.text = <<"Ollama API error: ">> \o call.error_body
        ELSE IF ~(call.body.json /\ {"model", "response"} \subseteq call.body.fields)
        THEN ~gwt_result.ok /\ Kind(gwt_result.error) = "MalformedResponse"
        ELSE gwt_result.ok /\ IsTrimOf(gwt_result.text, call.body.response)

C9_Witness ==
    /\ spc = "done"
    /\ AnswerInTime
    /\ call.status_ok
    /\ gwt_result.ok
    /\ gwt_result.text # call.body.response

----------------------------------------------------------------------------
(* Properties of the model registry (checked under SpecReg) *)

\* the catalog body does not decode into ModelsResponse
Undecodable(body) ==
    \/ ~body.json
    \/ "models" \notin body.fields
    \/ \E i \in 1..Len(body.models) : "name" \notin body.models[i].fields

\* C10: validate_model never returns an error, and returns false when the
\* transport is unreachable, the status is non-success or the catalog body
\* cannot be decoded.
C10_ValidateDegrades ==
    rpc = "done" =>
        /\ reg_result.ok
        /\ (~reg.send_ok \/ ~reg.status_ok \/ Undecodable(reg.body)) => ~reg_result.value

C10_Witness ==
    /\ rpc = "done"
    /\ reg.send_ok
    /\ reg.status_ok
    /\ Undecodable(reg.body)
    /\ reg_result = OkBool(FALSE)

----------------------------------------------------------------------------
(* Properties of get_available_models and validate_model (checked under    *)
(* SpecList)                                                               *)

\* the names of a successful listing
Listed == {list_result.models[i] : i \in 1..Len(list_result.models)}

\* C11: for every client configuration and every name, when
\* get_available_models has succeeded, validate_model(name) has returned true
\* exactly when name is one of the names the listing returned
C11_ValidateAgreesWithList ==
    (list_result.ok /\ valid_result.ok) =>
        (valid_result.value <=> asked \in Listed)

----------------------------------------------------------------------------
(* Properties of pull_model (checked under SpecPull) *)

\* pull_model is past its initial validation
Decided == ppc \in {"install", "sleep", "done"}

\* what the initial validation reported
InitiallyPresent == validate_at(pull.model, probes[1]).value

\* C12: pull_model sends an installation request if and only if its initial
\* validation reports the model absent; when the model is already present it
\* returns Ok(true) and no installation request has been sent
C12_InstallIffAbsent ==
    /\ ~Decided => installs = 0
    /\ (Decided /\ InitiallyPresent) =>
          /\ installs = 0
          /\ ppc = "done"
          /\ pull_result = OkBool(TRUE)
    /\ (ppc \in {"sleep", "done"} /\ installs = 0) => InitiallyPresent
    /\ (ppc \in {"sleep", "done"} /\ ~InitiallyPresent) => installs = 1

C12_Witness ==
    /\ ppc = "done"
    /\ InitiallyPresent
    /\ installs = 0
    /\ pull_result = OkBool(TRUE)

\* C13: when the model is initially absent, pull_model sends exactly one
\* installation request; a non-success response makes it fail without a
\* second validation; a success response is followed by the whole grace wait
\* and exactly one more validation, and pull_model returns the boolean of that
\* validation: true only if the model is in the catalog it was answered with
C13_OneInstallThenRevalidate ==
    (ppc = "done" /\ ~InitiallyPresent) =>
        /\ installs = 1
        /\ (pull.send_ok /\ ~pull.status_ok) =>
              /\ pull_result = ErrBool("Failed to pull model")
              /\ Len(probes) = 1
        /\ (pull.send_ok /\ pull.status_ok) =>
              /\ slept = PULL_GRACE_SECS
              /\ Len(probes) = 2
              /\ pull_result.ok
              /\ pull_result.value <=>
                    /\ probes[2].send_ok
                    /\ probes[2].status_ok
                    /\ catalog_json(probes[2].body).ok
                    /\ \E i \in 1..Len(probes[2].body.models) :
                          probes[2].body.models[i].name = pull.model

\* an accepted pull after which the model is still not in the catalog
C13_Witness ==
    /\ ppc = "done"
    /\ ~InitiallyPresent
    /\ pull.send_ok
    /\ pull.status_ok
    /\ Len(probes) = 2
    /\ catalog_json(probes[2].body).ok
    /\ pull_result = OkBool(FALSE)

----------------------------------------------------------------------------
(* Properties of the client's configuration and requests (checked under    *)
(* SpecClient)                                                             *)

\* a temperature within [0.0, 1.0]
InRange(t) == ~t.nan /\ 0 <= t.v /\ t.v <= 100

\* t clamped into [0.0, 1.0]; nothing but the range is asked of a NaN
IsClampOf(r, t) ==
    /\ InRange(r)
    /\ (~t.nan /\ t.v < 0) => r = F(0)
    /\ (~t.nan /\ t.v > 100) => r = F(100)
    /\ InRange(t) => r = t

\* set_temperature alone: the stored temperature is its argument clamped
SetTemperatureClamps ==
    last_call.op = "set_temperature" =>
        IsClampOf(config.temperature, last_call.temperature)

\* C14: after set_temperature(t) the configured temperature is t clamped into
\* [0.0, 1.0], and after any sequence of mutator calls (set_model,
\* set_temperature) the configured temperature lies in [0.0, 1.0]
C14_MutatorsKeepRange ==
    /\ SetTemperatureClamps
    /\ last_call.op \in {"set_model", "set_temperature"} =>
          InRange(config.temperature)

\* C15: every request sent by a synchronous or streaming call carries a
\* temperature within [0.0, 1.0], for every client built by new or
\* with_config and changed by any sequence of set_model / set_temperature
C15_RequestTemperatureInRange ==
    request # NoRequest => InRange(request.temperature)

\* the part of generate_command's prompt that follows the task
HistoryBlock == SubSeq(request.prompt, 4, Len(request.prompt))

IsUserInput(t) == \E k \in 1..Len(HistoryItems) : HistoryItems[k].user_input = t
IsCommand(t) == \E k \in 1..Len(HistoryItems) : HistoryItems[k].command = t
IsResult(t) == \E k \in 1..Len(HistoryItems) : HistoryItems[k].result = t
IsNumber(t) == \E k \in 1..8 : to_string(k) = t

\* the most recent min(3, n) items of the history, most recent first
MostRecentFirst ==
    [i \in 1..(IF Len(history) < 3 THEN Len(history) ELSE 3) |->
        history[Len(history) + 1 - i]]

\* C16: for a history of any length n the history block of generate_command's
\* prompt holds exactly min(3, n) items, the most recent ones, most recent
\* first and numbered from 1; for n = 0 it is the no-history sentinel
C16_HistoryWindow ==
    last_call.op = "generate_command" =>
        /\ Len(history) = 0 => HistoryBlock = <<"No previous interaction history.">>
        /\ Len(history) > 0 =>
              /\ HistoryBlock[1] = "Here are some previous interactions:\n\n"
              /\ SelectSeq(HistoryBlock, IsUserInput)
                    = [i \in 1..Len(MostRecentFirst) |-> MostRecentFirst[i].user_input]
              /\ SelectSeq(HistoryBlock, IsCommand)
                    = [i \in 1..Len(MostRecentFirst) |-> MostRecentFirst[i].command]
              /\ SelectSeq(HistoryBlock, IsResult)
                    = [i \in 1..Len(MostRecentFirst) |-> MostRecentFirst[i].result]
              /\ SelectSeq(HistoryBlock, IsNumber)
                    = [i \in 1..Len(MostRecentFirst) |-> to_string(i)]

\* a prompt built from a history longer than the window
C16_Witness ==
    /\ last_call.op = "generate_command"
    /\ Len(history) > 3
    /\ Len(SelectSeq(HistoryBlock, IsUserInput)) = 3

----------------------------------------------------------------------------
(* Properties of the sanitizer (checked under SpecSan) *)

\* C17: the sanitizer is idempotent: applied to its own output it returns
\* that output
C17_Idempotent ==
    san = 2 => twice = once

\* a text with no whitespace around it, not wrapped in fences or backticks,
\* and not starting with "sh ", "bash " or "shell "
IsClean(t) ==
    /\ t = <<>> \/ (~IsWhite(t[1]) /\ ~IsWhite(t[Len(t)]))
    /\ ~(Len(t) >= 3 /\ SubSeq(t, 1, 3) = <<BT, BT, BT>>
                     /\ SubSeq(t, Len(t) - 2, Len(t)) = <<BT, BT, BT>>)
    /\ ~(Len(t) >= 1 /\ t[1] = BT /\ t[Len(t)] = BT)
    /\ ~(Len(t) >= 3 /\ SubSeq(t, 1, 3) = <<"s", "h", " ">>)
    /\ ~(Len(t) >= 5 /\ SubSeq(t, 1, 5) = <<"b", "a", "s", "h", " ">>)
    /\ ~(Len(t) >= 6 /\ SubSeq(t, 1, 6) = <<"s", "h", "e", "l", "l", " ">>)

\* C18: for every input the sanitizer's output has no leading or trailing
\* whitespace, is not wrapped in triple-backtick fences or single backticks,
\* and does not start with "sh ", "bash " or "shell "
C18_OutputIsClean ==
    (san >= 1 /\ ~once.panic) => IsClean(once.text)

\* the first half of C18 alone: no whitespace around the output
OutputIsTrimmed ==
    (san >= 1 /\ ~once.panic) =>
        \/ once.text = <<>>
        \/ ~IsWhite(once.text[1]) /\ ~IsWhite(once.text[Len(once.text)])

\* t without the whitespace around it
RECURSIVE Trimmed(_)
Trimmed(t) ==
    IF t # <<>> /\ t[1] \in {" ", "\n", "\t"} THEN Trimmed(Tail(t))
    ELSE IF t # <<>> /\ t[Len(t)] \in {" ", "\n", "\t"}
         THEN Trimmed(SubSeq(t, 1, Len(t) - 1))
    ELSE t

\* the trimmed interior of a wrapped text, less one leading "sh ", "bash " or
\* "shell "
Unwrapped(t) ==
    LET u == Trimmed(t)
    IN  Trimmed(
          IF Len(u) >= 3 /\ SubSeq(u, 1, 3) = <<"s", "h", " ">>
          THEN SubSeq(u, 4, Len(u))
          ELSE IF Len(u) >= 5 /\ SubSeq(u, 1, 5) = <<"b", "a", "s", "h", " ">>
          THEN SubSeq(u, 6, Len(u))
          ELSE IF Len(u) >= 6 /\ SubSeq(u, 1, 6) = <<"s", "h", "e", "l", "l", " ">>
          THEN SubSeq(u, 7, Len(u))
          ELSE u)

\* a backtick-wrapped text that is also a text between two fences
AlsoFenced(t) ==
    /\ Len(t) >= 1
    /\ t[1] = BT
    /\ t[Len(t)] = BT
    /\ Len(t) = 1 \/ (t[2] = BT /\ t[Len(t) - 1] = BT)

\* C19: a text wrapped in a fenced block, with or without a language tag on
\* the opening fence, is mapped to its trimmed interior without the fence
\* lines; a text wrapped in single backticks to the trimmed interior between
\* the first and the last mark; a leading "sh ", "bash " or "shell " is
\* removed after that, so a prefix exposed by unwrapping is removed too; the
\* four inputs of test_clean_command_response give the outputs it expects
C19_UnwrapsThenStripsPrefix ==
    san >= 1 =>
        /\ origin.shape = "fenced" =>
              once = [panic |-> FALSE, text |-> Unwrapped(Interior(origin))]
        /\ (origin.shape = "ticked" /\ ~AlsoFenced(Interior(origin))) =>
              once = [panic |-> FALSE, text |-> Unwrapped(Interior(origin))]
        /\ origin.shape = "test" =>
              once = [panic |-> FALSE, text |-> TestExpected[origin.test]]

\* a fenced block tagged bash whose interior starts with a language prefix
C19_Witness ==
    /\ san >= 1
    /\ origin.shape = "fenced"
    /\ origin.tag # <<>>
    /\ origin.prefix # 0
    /\ origin.padded
    /\ once.text # <<>>
    /\ Len(once.text) < Len(Interior(origin))

----------------------------------------------------------------------------
(* The stalled consumer (checked under Spec) *)

\* the producer is at a tx.send(..).await
AtSend ==
    \/ pc \in {"early", "stream_err"}
    \/ /\ pc = "lines"
       /\ li <= Len(resp.stream[ci].lines)
       /\ from_str(resp.stream[ci].lines[li]).ok

\* the response stream has ended or failed, or there never was one
StreamOver ==
    \/ ~Accepted
    \/ ci > Len(resp.stream)
    \/ resp.stream[ci].err

\* C20: while the consumer holds the receiver without reading, the producer
\* is suspended at its send once 100 fragments are pending: no step of the
\* task is possible and nothing more is buffered; the task is not ended from
\* outside: it is past its read loop only when the response stream has ended
\* or failed (or the request was not accepted)
C20_StalledConsumerSuspendsProducer ==
    /\ Len(chan) <= CHANNEL_CAPACITY
    /\ (rx = "open" /\ Len(chan) = CHANNEL_CAPACITY /\ AtSend) =>
          ~ENABLED (SendRequest \/ EarlyReturn \/ NextChunk \/ NextLine
                      \/ StreamError \/ StoreFinal \/ TaskEnd)
    /\ pc \in {"store", "finishing", "done"} => StreamOver

\* the consumer has read nothing, 100 fragments are pending and the producer
\* has one more to send
C20_Witness ==
    /\ rx = "open"
    /\ received = <<>>
    /\ Len(chan) = CHANNEL_CAPACITY
    /\ pc = "lines"
    /\ AtSend
    /\ Len(full_response) = CHANNEL_CAPACITY

----------------------------------------------------------------------------
(* Lines that do not parse, chunk boundaries, transport errors (checked    *)
(* under Spec)                                                             *)

IsPrefix(a, b) == Len(a) <= Len(b) /\ SubSeq(b, 1, Len(a)) = a

\* the line is a well-formed frame
WellFormed(line) == line.json /\ {"model", "response"} \subseteq line.fields

\* the line is a well-formed frame that says done
SaysDone(line) == WellFormed(line) /\ "done" \in line.fields /\ line.done

\* the lines up to and including the first frame that says done
UpToDone(ls) ==
    IF \E i \in 1..Len(ls) : SaysDone(ls[i])
    THEN SubSeq(ls, 1, CHOOSE i \in 1..Len(ls) :
                          SaysDone(ls[i]) /\ \A j \in 1..(i - 1) : ~SaysDone(ls[j]))
    ELSE ls

\* the fragments of the well-formed lines among ls, in order, as one text
TextOf(ls) ==
    Concat([i \in 1..Len(ls) |-> IF WellFormed(ls[i]) THEN ls[i].response ELSE <<>>])

\* the chunks delivered before the transport fails, if it does
BeforeError ==
    IF \E c \in 1..Len(resp.stream) : resp.stream[c].err
    THEN SubSeq(resp.stream, 1,
                (CHOOSE c \in 1..Len(resp.stream) :
                    resp.stream[c].err /\ \A k \in 1..(c - 1) : ~resp.stream[k].err) - 1)
    ELSE resp.stream

\* the lines text.lines() yields, chunk after chunk, for the chunks that are
\* valid UTF-8
LinesRead == AllLines(SelectSeq(BeforeError, LAMBDA c : c.utf8))

\* the producer has left its read loop
LoopLeft == Accepted /\ pc \in {"store", "finishing", "done"}

DeliveredWhole ==
    /\ Accepted
    /\ \A c \in 1..Len(resp.stream) : ~resp.stream[c].err /\ resp.stream[c].utf8

\* C22: wherever the chunk boundaries fall, a line spanning two chunks
\* included, the fragments forwarded and accumulated for a body are those of
\* its complete well-formed lines: what the same body gives when it arrives
\* in one chunk
C22_ChunkingIndependent ==
    (DeliveredWhole /\ pc = "done") =>
        /\ full_response = TextOf(UpToDone(resp.wire))
        /\ rx # "dropped" => Concat(Fragments(Through)) = TextOf(UpToDone(resp.wire))

\* the transport fails while the body is read
MidStreamError == Accepted /\ \E c \in 1..Len(resp.stream) : resp.stream[c].err

\* the place of the first transport error among the chunks
ErrorAt ==
    CHOOSE c \in 1..Len(resp.stream) :
        resp.stream[c].err /\ \A k \in 1..(c - 1) : ~resp.stream[k].err

\* the text of the frames the producer decodes before the transport fails:
\* of each chunk that is valid UTF-8, the lines up to its first done frame
DecodedBeforeError ==
    Concat([c \in 1..Len(BeforeError) |->
              IF BeforeError[c].utf8 THEN TextOf(UpToDone(BeforeError[c].lines))
              ELSE <<>>])

\* the diagnostics among a sequence of channel items
DiagnosticsIn(items) == SelectSeq(items, LAMBDA t : t \in Diagnostics)

\* C23: after a transport error mid-stream the producer has put a single
\* diagnostic on the channel, as its last item, has read no chunk past the
\* error, and has written to the slot, once, exactly the concatenation of the
\* fragments decoded before the error; the diagnostic is on the channel and is
\* no part of the slot's text
C23_ErrorKeepsPartialText ==
    (MidStreamError /\ pc \in {"finishing", "done"}) =>
        /\ ci = ErrorAt
        /\ slot_writes = 1
        /\ final_response = Some(full_response)
        /\ final_response = Some(DecodedBeforeError)
        /\ \A k \in 1..Len(final_response[1]) :
              final_response[1][k] \notin {d[1] : d \in Diagnostics}
        /\ rx # "dropped" =>
              /\ DiagnosticsIn(Through) = <<FormatStreamError(TransportErr)>>
              /\ Through[Len(Through)] = FormatStreamError(TransportErr)
              /\ final_response = Some(Concat(Fragments(Through)))

C23_Witness ==
    /\ MidStreamError
    /\ pc = "done"
    /\ rx = "closed"
    /\ ErrorAt < Len(resp.stream)
    /\ Len(received) >= 2
    /\ received[Len(received)] = FormatStreamError(TransportErr)
    /\ final_response = Some(Concat(Fragments(received)))
    /\ final_response # Some(<<>>)

----------------------------------------------------------------------------
(* Closure of the channel (checked under SpecLive)                         *)

\* C24: in every streaming call whose request completes and whose body ends
\* or errors, with a consumer that keeps receiving, the producer task ends in
\* every outcome (early diagnostic, end of body, transport error), the
\* channel is closed, and the consumer's loop, reading until closure, ends
C24_ChannelEventuallyClosed == <>[](pc = "done" /\ chan = <<>> /\ rx = "closed")

C24_Witness ==
    /\ rx = "closed"
    /\ pc = "done"
    /\ chan = <<>>
    /\ Len(received) > CHANNEL_CAPACITY

----------------------------------------------------------------------------
(* Totality of the sanitizer (checked under SpecSan)                       *)

\* C25: the sanitizer returns a string for every input string; no slice it
\* takes is out of range, also not for an input made only of the markers it
\* strips or for a fenced text with a single newline
C25_NeverPanics == san >= 1 => ~once.panic

----------------------------------------------------------------------------
(* The model the interactive program uses (checked under SpecMain)         *)

\* validation of the candidate answered false and the pull was declined,
\* failed or returned false: the switch command is abandoned in this step
SwitchAbandoned ==
    /\ mpc \in {"ask", "pull"}
    /\ mpc' \in {"prompt", "failed"}

\* C26: in the interactive loop the client's model id is always the model
\* selected and validated at start-up or a model for which, during a switch
\* command, validate returned true or pull returned true; and a switch whose
\* validation fails and whose pull is declined, fails or returns false leaves
\* the current model unchanged
C26_ModelIsValidated ==
    /\ [](client # NoClient => client.model \in approved)
    /\ [][SwitchAbandoned => client' = client]_vars
    /\ [][client' # client => mpc \in {"build", "set"} /\ selected \in approved]_vars

C26_Witness ==
    /\ mpc = "prompt"
    /\ client # NoClient
    /\ Cardinality(approved) >= 2
    /\ client.model = selected
    /\ ~validate_model(selected).value

====
